---- MODULE Spec2Model ----
(***************************************************************************)
(* Model of internal/shared/netutil/ipaccess.go (package netutil): the     *)
(* IPAccessChecker built by NewIPAccessChecker, its IsAllowed and HasRules *)
(* methods, and ExtractIP.                                                 *)
(*                                                                         *)
(* A Go string is a sequence of one-character strings, a net.IP and a      *)
(* net.IPMask are sequences of bytes (0..255), and the nil slice is <<>>.  *)
(* The functions of package net and strings that the file calls are        *)
(* modelled at the place of the call, computed as the Go standard library  *)
(* computes them (net.ParseIP, net.ParseCIDR, IP.To4, IP.Mask,             *)
(* IPNet.Contains, net.SplitHostPort, strings.TrimSpace).                  *)
(***************************************************************************)
EXTENDS Integers, Sequences, FiniteSets, TLC

(***************************************************************************)
(* Characters and strings                                                  *)
(***************************************************************************)
Digits == <<"0", "1", "2", "3", "4", "5", "6", "7", "8", "9">>

HexDigits == <<"0", "1", "2", "3", "4", "5", "6", "7", "8", "9",
               "a", "b", "c", "d", "e", "f">>

HexUpper == <<"0", "1", "2", "3", "4", "5", "6", "7", "8", "9",
              "A", "B", "C", "D", "E", "F">>

IsDigit(ch) == \E k \in 1..10 : Digits[k] = ch

DigitVal(ch) == (CHOOSE k \in 1..10 : Digits[k] = ch) - 1

IsHex(ch) == \E k \in 1..16 : HexDigits[k] = ch \/ HexUpper[k] = ch

HexVal(ch) == (CHOOSE k \in 1..16 : HexDigits[k] = ch \/ HexUpper[k] = ch) - 1

\* s[from:] of Go, with from a 0-based offset
Suffix(s, from) == SubSeq(s, from + 1, Len(s))

\* s[:to] of Go, with to a 0-based offset
Prefix(s, to) == SubSeq(s, 1, to)

\* bytealg.IndexByteString: the 0-based offset of the first ch in s, or -1
IndexByte(s, ch) ==
    IF \E k \in 1..Len(s) : s[k] = ch
    THEN (CHOOSE k \in 1..Len(s) : s[k] = ch /\ \A j \in 1..(k - 1) : s[j] # ch) - 1
    ELSE -1

\* bytealg.LastIndexByteString: the 0-based offset of the last ch in s, or -1
LastIndexByte(s, ch) ==
    IF \E k \in 1..Len(s) : s[k] = ch
    THEN (CHOOSE k \in 1..Len(s) : s[k] = ch /\ \A j \in (k + 1)..Len(s) : s[j] # ch) - 1
    ELSE -1

\* strings.Contains(s, "/") and the like, for a one-character substr
StringsContains(s, ch) == IndexByte(s, ch) >= 0

IsSpace(ch) == ch \in {" ", "\t", "\n", "\r"}

RECURSIVE TrimLeft(_)
TrimLeft(s) ==
    IF s # <<>> /\ IsSpace(Head(s)) THEN TrimLeft(Tail(s)) ELSE s

RECURSIVE TrimRight(_)
TrimRight(s) ==
    IF s # <<>> /\ IsSpace(s[Len(s)]) THEN TrimRight(Prefix(s, Len(s) - 1)) ELSE s

\* strings.TrimSpace
TrimSpace(s) == TrimRight(TrimLeft(s))

(***************************************************************************)
(* net.IP, net.IPMask                                                      *)
(***************************************************************************)
IPv4len == 4

IPv6len == 16

v4InV6Prefix == <<0, 0, 0, 0, 0, 0, 0, 0, 0, 0, 255, 255>>

Zeros(n) == [k \in 1..n |-> 0]

\* a & b on bytes
RECURSIVE ByteAnd(_, _)
ByteAnd(a, b) ==
    IF a = 0 \/ b = 0 THEN 0
    ELSE IF b = 255 THEN a
    ELSE IF a = 255 THEN b
    ELSE 2 * ByteAnd(a \div 2, b \div 2) + (a % 2) * (b % 2)

\* IP.To4: the 4-byte form of an IPv4 address, nil for any other address
To4(ip) ==
    IF Len(ip) = IPv4len THEN ip
    ELSE IF Len(ip) = IPv6len /\ SubSeq(ip, 1, 12) = v4InV6Prefix
         THEN SubSeq(ip, 13, 16)
         ELSE <<>>

\* net.CIDRMask(ones, bits): a mask of bits/8 bytes with ones leading 1 bits
CIDRMask(ones, bits) ==
    IF bits # 8 * IPv4len /\ bits # 8 * IPv6len THEN <<>>
    ELSE IF ones < 0 \/ ones > bits THEN <<>>
    ELSE
    [k \in 1..(bits \div 8) |->
        IF ones >= 8 * k THEN 255
        ELSE IF ones <= 8 * (k - 1) THEN 0
        ELSE 256 - 2 ^ (8 * k - ones)]

allFF(b) == \A k \in 1..Len(b) : b[k] = 255

\* IP.Mask
Mask(ip, mask) ==
    LET m1 == IF Len(mask) = IPv6len /\ Len(ip) = IPv4len /\ allFF(SubSeq(mask, 1, 12))
              THEN SubSeq(mask, 13, 16) ELSE mask
        ip1 == IF Len(m1) = IPv4len /\ Len(ip) = IPv6len /\ SubSeq(ip, 1, 12) = v4InV6Prefix
               THEN SubSeq(ip, 13, 16) ELSE ip
    IN  IF Len(ip1) # Len(m1) THEN <<>>
        ELSE [k \in 1..Len(ip1) |-> ByteAnd(ip1[k], m1[k])]

(***************************************************************************)
(* net.ParseIP                                                             *)
(***************************************************************************)
\* netip.parseIPv4Fields on the whole of s: the 4 bytes, or <<>> on an error
RECURSIVE parseIPv4Fields(_, _, _, _, _)
parseIPv4Fields(s, i, val, digLen, fields) ==
    IF i > Len(s)
    THEN IF Len(fields) < 3 THEN <<>> ELSE Append(fields, val)
    ELSE IF IsDigit(s[i])
    THEN IF digLen = 1 /\ val = 0 THEN <<>>
         ELSE LET v == val * 10 + DigitVal(s[i])
              IN  IF v > 255 THEN <<>>
                  ELSE parseIPv4Fields(s, i + 1, v, digLen + 1, fields)
    ELSE IF s[i] = "."
    THEN IF i = 1 \/ i = Len(s) \/ s[i - 1] = "." THEN <<>>
         ELSE IF Len(fields) = 3 THEN <<>>
         ELSE parseIPv4Fields(s, i + 1, 0, 0, Append(fields, val))
    ELSE <<>>

parseIPv4(s) == parseIPv4Fields(s, 1, 0, 0, <<>>)

\* the hex group at the head of s: [off, acc, ok]; ok is false for a fifth digit
RECURSIVE hexGroup(_, _, _)
hexGroup(s, off, acc) ==
    IF off < Len(s) /\ IsHex(s[off + 1])
    THEN IF off > 3 THEN [off |-> off, acc |-> acc, ok |-> FALSE]
         ELSE hexGroup(s, off + 1, acc * 16 + HexVal(s[off + 1]))
    ELSE [off |-> off, acc |-> acc, ok |-> TRUE]

\* the ellipsis of an IPv6 address expanded: ip has i bytes, the :: is at ellipsis
expandEllipsis(ip, ellipsis) ==
    LET i == Len(ip)
    IN  IF i < 16
        THEN IF ellipsis < 0 THEN <<>>
             ELSE SubSeq(ip, 1, ellipsis) \o Zeros(16 - i) \o SubSeq(ip, ellipsis + 1, i)
        ELSE IF ellipsis >= 0 THEN <<>> ELSE ip

\* the loop of netip.parseIPv6: s is what is left, ip the bytes written so far
RECURSIVE parseIPv6Loop(_, _, _)
parseIPv6Loop(s, ip, ellipsis) ==
    IF Len(ip) >= 16
    THEN IF Len(s) # 0 THEN <<>> ELSE expandEllipsis(ip, ellipsis)
    ELSE
    LET g == hexGroup(s, 0, 0)
        off == g.off
    IN  IF ~g.ok \/ off = 0 THEN <<>>
        ELSE IF off < Len(s) /\ s[off + 1] = "."
        THEN IF ellipsis < 0 /\ Len(ip) # 12 THEN <<>>
             ELSE IF Len(ip) + 4 > 16 THEN <<>>
             ELSE LET v4 == parseIPv4(s)
                  IN  IF v4 = <<>> THEN <<>>
                      ELSE expandEllipsis(ip \o v4, ellipsis)
        ELSE
        LET ip1 == ip \o <<g.acc \div 256, g.acc % 256>>
            s1 == Suffix(s, off)
        IN  IF Len(s1) = 0 THEN expandEllipsis(ip1, ellipsis)
            ELSE IF s1[1] # ":" THEN <<>>
            ELSE IF Len(s1) = 1 THEN <<>>
            ELSE LET s2 == Suffix(s1, 1)
                 IN  IF s2[1] = ":"
                     THEN IF ellipsis >= 0 THEN <<>>
                          ELSE IF Len(s2) = 1 THEN expandEllipsis(ip1, Len(ip1))
                          ELSE parseIPv6Loop(Suffix(s2, 1), ip1, Len(ip1))
                     ELSE parseIPv6Loop(s2, ip1, ellipsis)

\* netip.parseIPv6, for an address the callers accept: one with no zone
parseIPv6(s) ==
    IF StringsContains(s, "%") THEN <<>>
    ELSE IF Len(s) >= 2 /\ s[1] = ":" /\ s[2] = ":"
    THEN IF Len(s) = 2 THEN Zeros(16)
         ELSE parseIPv6Loop(Suffix(s, 2), <<>>, 0)
    ELSE parseIPv6Loop(s, <<>>, -1)

\* the first of '.', ':' and '%' in s decides how netip.ParseAddr reads it
RECURSIVE firstSep(_)
firstSep(s) ==
    IF s = <<>> THEN ""
    ELSE IF Head(s) \in {".", ":", "%"} THEN Head(s)
    ELSE firstSep(Tail(s))

\* netip.ParseAddr with Addr.BitLen: [ok, bits, a16], a16 being Addr.As16
ParseAddr(s) ==
    LET sep == firstSep(s)
        v4 == IF sep = "." THEN parseIPv4(s) ELSE <<>>
        v6 == IF sep = ":" THEN parseIPv6(s) ELSE <<>>
    IN  IF v4 # <<>> THEN [ok |-> TRUE, bits |-> 32, a16 |-> v4InV6Prefix \o v4]
        ELSE IF v6 # <<>> THEN [ok |-> TRUE, bits |-> 128, a16 |-> v6]
        ELSE [ok |-> FALSE, bits |-> 0, a16 |-> <<>>]

\* net.ParseIP: the 16-byte form of the address s, nil when s is no address
ParseIP(s) == ParseAddr(s).a16


(***************************************************************************)
(* net.ParseCIDR, net.IPNet                                                *)
(***************************************************************************)
big == 16777215

\* net's dtoi: the decimal number at the head of s: [n, i, ok]
RECURSIVE dtoiLoop(_, _, _)
dtoiLoop(s, i, n) ==
    IF i < Len(s) /\ IsDigit(s[i + 1])
    THEN LET n1 == n * 10 + DigitVal(s[i + 1])
         IN  IF n1 >= big THEN [n |-> big, i |-> i, ok |-> FALSE]
             ELSE dtoiLoop(s, i + 1, n1)
    ELSE IF i = 0 THEN [n |-> 0, i |-> 0, ok |-> FALSE]
    ELSE [n |-> n, i |-> i, ok |-> TRUE]

dtoi(s) == dtoiLoop(s, 0, 0)

NoNet == [IP |-> <<>>, Mask |-> <<>>]

\* net.ParseCIDR: [err, ipNet]; the address it also returns is dropped by the callers
ParseCIDR(s) ==
    LET i == IndexByte(s, "/")
        addr == Prefix(s, i)
        mask == Suffix(s, i + 1)
        ipAddr == ParseAddr(addr)
        d == dtoi(mask)
        m == CIDRMask(d.n, ipAddr.bits)
    IN  IF i < 0 THEN [err |-> TRUE, ipNet |-> NoNet]
        ELSE IF ~ipAddr.ok THEN [err |-> TRUE, ipNet |-> NoNet]
        ELSE IF ~d.ok \/ d.i # Len(mask) \/ d.n < 0 \/ d.n > ipAddr.bits
        THEN [err |-> TRUE, ipNet |-> NoNet]
        ELSE [err |-> FALSE, ipNet |-> [IP |-> Mask(ipAddr.a16, m), Mask |-> m]]

\* net's networkNumberAndMask: [ip, m], both nil for a malformed network
networkNumberAndMask(n) ==
    LET ip == IF To4(n.IP) # <<>> THEN To4(n.IP) ELSE n.IP
        m == n.Mask
    IN  IF To4(n.IP) = <<>> /\ Len(n.IP) # IPv6len THEN [ip |-> <<>>, m |-> <<>>]
        ELSE IF Len(m) = IPv4len
        THEN IF Len(ip) # IPv4len THEN [ip |-> <<>>, m |-> <<>>]
             ELSE [ip |-> ip, m |-> m]
        ELSE IF Len(m) = IPv6len
        THEN IF Len(ip) = IPv4len THEN [ip |-> ip, m |-> SubSeq(m, 13, 16)]
             ELSE [ip |-> ip, m |-> m]
        ELSE [ip |-> <<>>, m |-> <<>>]

\* IPNetContains with a fault: the network is compared with the address as given
\* in its 16-byte form, with no length test
IPNetContainsRaw(n, ip) ==
    LET n16 == IF Len(n.IP) = IPv4len THEN v4InV6Prefix \o n.IP ELSE n.IP
        m16 == IF Len(n.Mask) = IPv4len THEN Zeros(12) \o n.Mask ELSE n.Mask
    IN  \A k \in 1..IPv6len : ByteAnd(n16[k], m16[k]) = ByteAnd(ip[k], m16[k])

\* IPNet.Contains
IPNetContains(n, ip) ==
    LET nm == networkNumberAndMask(n)
        x == IF To4(ip) # <<>> THEN To4(ip) ELSE ip
        l == Len(x)
    IN  IF l # Len(nm.ip) THEN FALSE
        ELSE \A k \in 1..l : ByteAnd(nm.ip[k], nm.m[k]) = ByteAnd(x[k], nm.m[k])

(***************************************************************************)
(* net.SplitHostPort                                                       *)
(***************************************************************************)
addrErr == [host |-> <<>>, port |-> <<>>, err |-> TRUE]

SplitHostPort(hostport) ==
    LET i == LastIndexByte(hostport, ":")
        bracket == hostport[1] = "["
        end == IndexByte(hostport, "]")
        host == IF bracket THEN SubSeq(hostport, 2, end) ELSE Prefix(hostport, i)
        j == IF bracket THEN 1 ELSE 0
        k == IF bracket THEN end + 1 ELSE 0
    IN  IF i < 0 THEN addrErr
        ELSE IF bracket /\ end < 0 THEN addrErr
        ELSE IF bracket /\ end + 1 # i THEN addrErr
        ELSE IF ~bracket /\ IndexByte(host, ":") >= 0 THEN addrErr
        ELSE IF IndexByte(Suffix(hostport, j), "[") >= 0 THEN addrErr
        ELSE IF IndexByte(Suffix(hostport, k), "]") >= 0 THEN addrErr
        ELSE [host |-> host, port |-> Suffix(hostport, i + 1), err |-> FALSE]

(***************************************************************************)
(* IPAccessChecker                                                         *)
(***************************************************************************)
\* the nil *IPAccessChecker
NilChecker ==
    [nil |-> TRUE, allowNets |-> <<>>, denyNets |-> <<>>,
     hasAllow |-> FALSE, hasDeny |-> FALSE]

Slash32 == <<"/", "3", "2">>

Slash128 == <<"/", "1", "2", "8">>

\* the body of the loop over allowCIDRs: the string handed to net.ParseCIDR
allowEntry(cidr) ==
    IF ~StringsContains(cidr, "/")
    THEN LET ip == ParseIP(cidr)
         IN  IF ip # <<>>
             THEN IF To4(ip) # <<>> THEN cidr \o Slash32 ELSE cidr \o Slash128
             ELSE cidr
    ELSE cidr

\* the loop over allowCIDRs: checker.allowNets
RECURSIVE allowLoop(_, _)
allowLoop(allowCIDRs, allowNets) ==
    IF allowCIDRs = <<>> THEN allowNets
    ELSE LET cidr == TrimSpace(Head(allowCIDRs))
             r == ParseCIDR(allowEntry(cidr))
         IN  IF cidr = <<>> THEN allowLoop(Tail(allowCIDRs), allowNets)
             ELSE IF r.err THEN allowLoop(Tail(allowCIDRs), allowNets)
             ELSE allowLoop(Tail(allowCIDRs), Append(allowNets, r.ipNet))

\* the body of the loop over denyIPs: the string handed to net.ParseCIDR
denyEntry(ipStr) ==
    IF ~StringsContains(ipStr, "/")
    THEN LET ip == ParseIP(ipStr)
         IN  IF ip # <<>>
             THEN IF To4(ip) # <<>> THEN ipStr \o Slash32 ELSE ipStr \o Slash128
             ELSE ipStr
    ELSE ipStr

\* the loop over denyIPs: checker.denyNets
RECURSIVE denyLoop(_, _)
denyLoop(denyIPs, denyNets) ==
    IF denyIPs = <<>> THEN denyNets
    ELSE LET ipStr == TrimSpace(Head(denyIPs))
             r == ParseCIDR(denyEntry(ipStr))
         IN  IF ipStr = <<>> THEN denyLoop(Tail(denyIPs), denyNets)
             ELSE IF r.err THEN denyLoop(Tail(denyIPs), denyNets)
             ELSE denyLoop(Tail(denyIPs), Append(denyNets, r.ipNet))

\* NewIPAccessChecker with a fault: a flag is set when its list has an entry
NewIPAccessCheckerFlagByEntries(allowCIDRs, denyIPs) ==
    [nil |-> FALSE,
     allowNets |-> allowLoop(allowCIDRs, <<>>),
     denyNets |-> denyLoop(denyIPs, <<>>),
     hasAllow |-> Len(allowCIDRs) > 0,
     hasDeny |-> Len(denyIPs) > 0]

NewIPAccessChecker(allowCIDRs, denyIPs) ==
    LET allowNets == allowLoop(allowCIDRs, <<>>)
        denyNets == denyLoop(denyIPs, <<>>)
    IN  [nil |-> FALSE,
         allowNets |-> allowNets,
         denyNets |-> denyNets,
         hasAllow |-> Len(allowNets) > 0,
         hasDeny |-> Len(denyNets) > 0]

\* the loop over c.denyNets of IsAllowed
inDenyNets(c, ip) == \E k \in 1..Len(c.denyNets) : IPNetContains(c.denyNets[k], ip)

\* the loop over c.allowNets of IsAllowed
inAllowNets(c, ip) == \E k \in 1..Len(c.allowNets) : IPNetContains(c.allowNets[k], ip)

\* IsAllowed with a fault: the allow list is checked before the deny list
IsAllowedAllowFirst(c, ipStr) ==
    IF c.nil \/ (~c.hasAllow /\ ~c.hasDeny) THEN TRUE
    ELSE LET ip == ParseIP(ipStr)
         IN  IF ip = <<>> THEN FALSE
             ELSE IF c.hasAllow /\ inAllowNets(c, ip) THEN TRUE
             ELSE IF c.hasDeny /\ inDenyNets(c, ip) THEN FALSE
             ELSE IF c.hasAllow THEN FALSE
             ELSE TRUE

\* IsAllowed with a fault: an address outside a configured allow list falls
\* through to the final return
IsAllowedFallThrough(c, ipStr) ==
    IF c.nil \/ (~c.hasAllow /\ ~c.hasDeny) THEN TRUE
    ELSE LET ip == ParseIP(ipStr)
         IN  IF ip = <<>> THEN FALSE
             ELSE IF c.hasDeny /\ inDenyNets(c, ip) THEN FALSE
             ELSE TRUE

\* IsAllowed with a fault: the address is parsed before the rules are looked at
IsAllowedParseFirst(c, ipStr) ==
    LET ip == ParseIP(ipStr)
    IN  IF ip = <<>> THEN FALSE
        ELSE IF c.nil \/ (~c.hasAllow /\ ~c.hasDeny) THEN TRUE
        ELSE IF c.hasDeny /\ inDenyNets(c, ip) THEN FALSE
        ELSE IF c.hasAllow THEN inAllowNets(c, ip)
        ELSE TRUE

\* IsAllowed with a fault: no test of the parsed address for nil
IsAllowedNoNilTest(c, ipStr) ==
    IF c.nil \/ (~c.hasAllow /\ ~c.hasDeny) THEN TRUE
    ELSE LET ip == ParseIP(ipStr)
         IN  IF c.hasDeny /\ ip # <<>> /\ inDenyNets(c, ip) THEN FALSE
             ELSE IF c.hasAllow THEN ip # <<>> /\ inAllowNets(c, ip)
             ELSE TRUE

\* IsAllowed with a fault: the final return rejects
IsAllowedFinalReject(c, ipStr) ==
    IF c.nil \/ (~c.hasAllow /\ ~c.hasDeny) THEN TRUE
    ELSE LET ip == ParseIP(ipStr)
         IN  IF ip = <<>> THEN FALSE
             ELSE IF c.hasDeny /\ inDenyNets(c, ip) THEN FALSE
             ELSE IF c.hasAllow THEN inAllowNets(c, ip)
             ELSE FALSE

\* (c *IPAccessChecker) IsAllowed(ipStr)
IsAllowed(c, ipStr) ==
    IF c.nil \/ (~c.hasAllow /\ ~c.hasDeny) THEN TRUE
    ELSE LET ip == ParseIP(ipStr)
         IN  IF ip = <<>> THEN FALSE
             ELSE IF c.hasDeny /\ inDenyNets(c, ip) THEN FALSE
             ELSE IF c.hasAllow
             THEN IF inAllowNets(c, ip) THEN TRUE ELSE FALSE
             ELSE TRUE

\* (c *IPAccessChecker) HasRules()
HasRules(c) == ~c.nil /\ (c.hasAllow \/ c.hasDeny)

\* ExtractIP with a fault: a string with no port is returned as it is
ExtractIPUnchecked(remoteAddr) ==
    LET r == SplitHostPort(remoteAddr)
    IN  IF r.err THEN remoteAddr ELSE r.host

ExtractIP(remoteAddr) ==
    LET r == SplitHostPort(remoteAddr)
    IN  IF r.err
        THEN IF ParseIP(remoteAddr) # <<>> THEN remoteAddr ELSE <<>>
        ELSE r.host

(***************************************************************************)
(* The inputs                                                              *)
(***************************************************************************)
\* the entries of the two lists: "10.0.0.0/8", " 10.1.2.3\t", "2001:db8::/32", "::1",
\* "::ffff:10.1.2.3", "::ffff:10.0.0.0/104", "10.0.0.0/33" and " "
RuleEntries ==
    {<<"1", "0", ".", "0", ".", "0", ".", "0", "/", "8">>,
     <<" ", "1", "0", ".", "1", ".", "2", ".", "3", "\t">>,
     <<"2", "0", "0", "1", ":", "d", "b", "8", ":", ":", "/", "3", "2">>,
     <<":", ":", "1">>,
     <<":", ":", "f", "f", "f", "f", ":", "1", "0", ".", "1", ".", "2", ".", "3">>,
     <<":", ":", "f", "f", "f", "f", ":", "1", "0", ".", "0", ".", "0", ".", "0", "/", "1", "0", "4">>,
     <<"1", "0", ".", "0", ".", "0", ".", "0", "/", "3", "3">>,
     <<" ">>}

\* the arguments of IsAllowed: "10.1.2.3", "10.5.5.5", "8.8.8.8", "::ffff:10.1.2.3",
\* "::1", "2001:db8::5", "garbage" and ""
Addresses ==
    {<<"1", "0", ".", "1", ".", "2", ".", "3">>,
     <<"1", "0", ".", "5", ".", "5", ".", "5">>,
     <<"8", ".", "8", ".", "8", ".", "8">>,
     <<":", ":", "f", "f", "f", "f", ":", "1", "0", ".", "1", ".", "2", ".", "3">>,
     <<":", ":", "1">>,
     <<"2", "0", "0", "1", ":", "d", "b", "8", ":", ":", "5">>,
     <<"g", "a", "r", "b", "a", "g", "e">>,
     <<>>}

\* the arguments of ExtractIP: "10.1.2.3:8443", "[::1]:443", "10.1.2.3", "::1",
\* "not-an-address", "[::1]", "host:80" and ""
RemoteAddrs ==
    {<<"1", "0", ".", "1", ".", "2", ".", "3", ":", "8", "4", "4", "3">>,
     <<"[", ":", ":", "1", "]", ":", "4", "4", "3">>,
     <<"1", "0", ".", "1", ".", "2", ".", "3">>,
     <<":", ":", "1">>,
     <<"n", "o", "t", "-", "a", "n", "-", "a", "d", "d", "r", "e", "s", "s">>,
     <<"[", ":", ":", "1", "]">>,
     <<"h", "o", "s", "t", ":", "8", "0">>,
     <<>>}

\* the two lists of a checker hold at most MaxEntries entries together
MaxEntries == 2

EntryLists == UNION {[1..n -> RuleEntries] : n \in 0..MaxEntries}

\* the calls made after the first call of IsAllowed that are followed
MaxAfter == 2

(***************************************************************************)
(* The state: a checker after its construction, and the calls made on it   *)
(***************************************************************************)
VARIABLES
    allowCIDRs,   \* the first argument of NewIPAccessChecker
    denyIPs,      \* the second argument of NewIPAccessChecker
    c,            \* the *IPAccessChecker the callers hold, NilChecker for nil
    call,         \* the last call: [op, arg, ret]
    first         \* what a caller keeps of its first call of IsAllowed:
                  \* [op, arg, ret], and the number of calls made after it

vars == <<allowCIDRs, denyIPs, c, call, first>>

NoCall == [op |-> "none", arg |-> <<>>, ret |-> FALSE]

NoFirst == [op |-> "none", arg |-> <<>>, ret |-> FALSE, after |-> 0]

\* a checker built by NewIPAccessChecker, or a nil checker
Init ==
    /\ allowCIDRs \in EntryLists
    /\ denyIPs \in EntryLists
    /\ Len(allowCIDRs) + Len(denyIPs) <= MaxEntries
    /\ \/ c = NewIPAccessChecker(allowCIDRs, denyIPs)
       \/ allowCIDRs = <<>> /\ denyIPs = <<>> /\ c = NilChecker
    /\ call = NoCall
    /\ first = NoFirst

\* DoIsAllowed with a fault: a rejected address is remembered in the deny list
DoIsAllowedCaching(ipStr) ==
    LET ret == IsAllowed(c, ipStr)
        ip == ParseIP(ipStr)
    IN  /\ call' = [op |-> "IsAllowed", arg |-> ipStr, ret |-> ret]
        /\ c' = IF ~c.nil /\ ~ret /\ ip # <<>>
                THEN [c EXCEPT !.denyNets = Append(@, [IP |-> ip, Mask |-> CIDRMask(128, 128)]),
                               !.hasDeny = TRUE]
                ELSE c
        /\ UNCHANGED <<allowCIDRs, denyIPs>>

\* a call of c.IsAllowed(ipStr)
DoIsAllowed(ipStr) ==
    /\ call' = [op |-> "IsAllowed", arg |-> ipStr, ret |-> IsAllowed(c, ipStr)]
    /\ UNCHANGED <<allowCIDRs, denyIPs, c>>

\* a call of c.HasRules()
DoHasRules ==
    /\ call' = [op |-> "HasRules", arg |-> <<>>, ret |-> HasRules(c)]
    /\ UNCHANGED <<allowCIDRs, denyIPs, c>>

\* a call of ExtractIP(remoteAddr)
DoExtractIP(remoteAddr) ==
    /\ call' = [op |-> "ExtractIP", arg |-> remoteAddr, ret |-> ExtractIP(remoteAddr)]
    /\ UNCHANGED <<allowCIDRs, denyIPs, c>>

\* the single calls, each from any state
Next ==
    \/ \E ipStr \in Addresses : DoIsAllowed(ipStr) /\ UNCHANGED first
    \/ DoHasRules /\ UNCHANGED first
    \/ \E remoteAddr \in RemoteAddrs : DoExtractIP(remoteAddr) /\ UNCHANGED first

Spec == Init /\ [][Next]_vars

\* the caller keeps its first call of IsAllowed and counts the calls after it
Keep ==
    first' = IF first.op = "none"
             THEN [op |-> call'.op, arg |-> call'.arg, ret |-> call'.ret, after |-> 0]
             ELSE [first EXCEPT !.after = @ + 1]

Count ==
    first' = IF first.op = "none" THEN first ELSE [first EXCEPT !.after = @ + 1]

\* sequences of calls of the two methods on one checker, in any order
NextRepeat ==
    /\ first.after < MaxAfter
    /\ \/ \E ipStr \in Addresses : DoIsAllowed(ipStr) /\ Keep
       \/ DoHasRules /\ Count

SpecRepeat == Init /\ [][NextRepeat]_vars

(***************************************************************************)
(* The claims                                                              *)
(***************************************************************************)
\* the parsed argument of the last call
ip0 == ParseIP(call.arg)

Parses == ip0 # <<>>

InDeny == \E k \in 1..Len(c.denyNets) : IPNetContains(c.denyNets[k], ip0)

InAllow == \E k \in 1..Len(c.allowNets) : IPNetContains(c.allowNets[k], ip0)

Asked == call.op = "IsAllowed"

\* C1: deny dominates allow: on a checker built by NewIPAccessChecker, IsAllowed
\* returns false for every address that parses and lies within a deny range,
\* also when it lies within an allow range.
C1_DenyDominates ==
    (Asked /\ ~c.nil /\ Parses /\ InDeny) => call.ret = FALSE

C1_Witness ==
    Asked /\ ~c.nil /\ Parses /\ InDeny /\ c.hasAllow /\ InAllow /\ call.ret = FALSE

\* C2: the allow list is exhaustive: with at least one allow rule, a parsable
\* address that matches no deny range is allowed if and only if it lies within
\* an allow prefix.
C2_AllowExhaustive ==
    (Asked /\ Len(c.allowNets) > 0 /\ Parses /\ ~InDeny) => (call.ret = InAllow)

C2_Witness ==
    Asked /\ Len(c.allowNets) > 0 /\ Parses /\ ~InDeny /\ ~InAllow /\ call.ret = FALSE

\* C3: fail-open default: a nil checker, and a checker with neither set
\* configured, allow every string, malformed and empty strings included: the
\* test comes before the address is parsed.
C3_FailOpen ==
    (Asked /\ (c.nil \/ (~c.hasAllow /\ ~c.hasDeny))) => call.ret = TRUE

C3_Witness ==
    /\ Asked /\ ~c.nil /\ ~c.hasAllow /\ ~c.hasDeny
    /\ Len(allowCIDRs) + Len(denyIPs) > 0
    /\ ~Parses /\ call.ret = TRUE

\* C4: once a set is configured, a string that is no IP address is rejected,
\* whatever the rules, and the outcome is a boolean.
C4_InvalidRejected ==
    Asked => /\ call.ret \in BOOLEAN
             /\ (~c.nil /\ (c.hasAllow \/ c.hasDeny) /\ ~Parses) => call.ret = FALSE

C4_Witness ==
    Asked /\ c.hasDeny /\ ~c.hasAllow /\ ~Parses /\ call.arg # <<>> /\ call.ret = FALSE

\* the text of an IPv6 address has a colon, the text of an IPv4 address has none
IsIPv6Text(s) == StringsContains(s, ":")

IsBareIP(s) == ~StringsContains(s, "/") /\ ParseIP(s) # <<>>

\* A/32 for the IPv4 address A, A/128 for the IPv6 address A
AsPrefix(a) == IF IsIPv6Text(a) THEN a \o Slash128 ELSE a \o Slash32

\* C5: a bare address A in either list gives the same IsAllowed result, for
\* every address asked, as "A/32" in its place when A is an IPv4 address and
\* as "A/128" when A is an IPv6 address, in every text form the parser accepts.
C5_BareAsPrefix ==
    (Asked /\ ~c.nil) =>
        /\ \A k \in 1..Len(allowCIDRs) :
             LET a == TrimSpace(allowCIDRs[k])
             IN  IsBareIP(a) =>
                   IsAllowed(NewIPAccessChecker([allowCIDRs EXCEPT ![k] = AsPrefix(a)],
                                                denyIPs), call.arg) = call.ret
        /\ \A k \in 1..Len(denyIPs) :
             LET a == TrimSpace(denyIPs[k])
             IN  IsBareIP(a) =>
                   IsAllowed(NewIPAccessChecker(allowCIDRs,
                                                [denyIPs EXCEPT ![k] = AsPrefix(a)]),
                             call.arg) = call.ret

\* the entries of a list whose text is of the family of the text s
SameTextFamily(list, s) ==
    SelectSeq(list, LAMBDA e : IsIPv6Text(e) = IsIPv6Text(s))

\* C6 as it is stated: an address never matches a prefix written in the other
\* family, an IPv4-mapped IPv6 address included, so the rules written in the
\* other family than the address asked never change the result.
C6_NoCoercion ==
    (Asked /\ ~c.nil /\ Parses) =>
        call.ret = IsAllowed([NewIPAccessChecker(SameTextFamily(allowCIDRs, call.arg),
                                                 SameTextFamily(denyIPs, call.arg))
                                EXCEPT !.hasAllow = c.hasAllow, !.hasDeny = c.hasDeny],
                             call.arg)

\* an address or a network is of the IPv4 family when its To4 is not nil
IsV4(ip) == To4(ip) # <<>>

SameFamily(nets, ip) == SelectSeq(nets, LAMBDA n : IsV4(n.IP) = IsV4(ip))

Itoa(n) ==
    IF n >= 100 THEN <<Digits[(n \div 100) + 1], Digits[((n \div 10) % 10) + 1], Digits[(n % 10) + 1]>>
    ELSE IF n >= 10 THEN <<Digits[(n \div 10) + 1], Digits[(n % 10) + 1]>>
    ELSE <<Digits[n + 1]>>

\* the dotted text a.b.c.d of a 4-byte address
Dotted(b) == Itoa(b[1]) \o <<".">> \o Itoa(b[2]) \o <<".">> \o Itoa(b[3]) \o <<".">> \o Itoa(b[4])

\* C6, amended: the families are told apart after To4: an IPv4-mapped IPv6
\* address ::ffff:a.b.c.d is asked as a.b.c.d, and a rule whose masked base
\* address is IPv4-mapped is an IPv4 rule. The rules of the family other than
\* that of the address asked never change the result, and ::ffff:a.b.c.d gets
\* the result of a.b.c.d.
C6_FamiliesAfterTo4 ==
    (Asked /\ ~c.nil /\ Parses) =>
        /\ call.ret = IsAllowed([c EXCEPT !.allowNets = SameFamily(c.allowNets, ip0),
                                          !.denyNets = SameFamily(c.denyNets, ip0)],
                                call.arg)
        /\ IsV4(ip0) => call.ret = IsAllowed(c, Dotted(To4(ip0)))

\* an IPv4-mapped IPv6 address is rejected by a deny rule written as an IPv4 prefix
C6_Witness ==
    /\ Asked /\ IsIPv6Text(call.arg) /\ IsV4(ip0)
    /\ c.hasDeny /\ ~c.hasAllow
    /\ \A k \in 1..Len(denyIPs) : ~IsIPv6Text(denyIPs[k])
    /\ call.ret = FALSE

\* none of the characters s[from..to] is one of chars
NoneOf(s, from, to, chars) == \A k \in from..to : s[k] \notin chars

\* s is host:port with no bracket, the colon at i
PlainForm(s, i) ==
    /\ s[i] = ":"
    /\ NoneOf(s, 1, i - 1, {":", "[", "]"})
    /\ NoneOf(s, i + 1, Len(s), {":", "[", "]"})

\* s is [host]:port, the closing bracket at e
BracketForm(s, e) ==
    /\ e >= 2 /\ e < Len(s)
    /\ s[1] = "[" /\ s[e] = "]" /\ s[e + 1] = ":"
    /\ NoneOf(s, 2, e - 1, {"[", "]"})
    /\ NoneOf(s, e + 2, Len(s), {":", "[", "]"})

\* C7: ExtractIP returns the address part of <address>:<port>, brackets
\* dropped; a string with no port that is an IP address unchanged; and the empty
\* string in every other case, which IsAllowed rejects on a configured checker.
C7_ExtractIP ==
    call.op = "ExtractIP" =>
        LET s == call.arg
        IN  /\ IF \E i \in 1..Len(s) : PlainForm(s, i)
               THEN call.ret = SubSeq(s, 1, (CHOOSE i \in 1..Len(s) : PlainForm(s, i)) - 1)
               ELSE IF \E e \in 1..Len(s) : BracketForm(s, e)
               THEN call.ret = SubSeq(s, 2, (CHOOSE e \in 1..Len(s) : BracketForm(s, e)) - 1)
               ELSE IF ParseIP(s) # <<>> THEN call.ret = s
               ELSE call.ret = <<>>
            /\ (call.ret = <<>> /\ HasRules(c)) => ~IsAllowed(c, call.ret)

C7_Witness ==
    /\ call.op = "ExtractIP" /\ call.arg # <<>> /\ call.ret = <<>>
    /\ ~StringsContains(call.arg, ":")
    /\ HasRules(c)

\* the entry e of a list gives a rule: trimmed, it is a prefix, or a bare address
GivesRule(e) ==
    LET t == TrimSpace(e)
    IN  t # <<>> /\ (~ParseCIDR(t).err \/ IsBareIP(t))

RuleCount(list) == Cardinality({k \in 1..Len(list) : GivesRule(list[k])})

\* C8: after NewIPAccessChecker each flag is true if and only if an entry of
\* its list gave a rule, the other entries give none, and HasRules is true if
\* and only if a flag is (false for a nil checker).
C8_Flags ==
    /\ ~c.nil => /\ c.hasAllow = (\E k \in 1..Len(allowCIDRs) : GivesRule(allowCIDRs[k]))
                 /\ c.hasDeny = (\E k \in 1..Len(denyIPs) : GivesRule(denyIPs[k]))
                 /\ Len(c.allowNets) = RuleCount(allowCIDRs)
                 /\ Len(c.denyNets) = RuleCount(denyIPs)
    /\ call.op = "HasRules" => call.ret = (~c.nil /\ (c.hasAllow \/ c.hasDeny))

C8_Witness ==
    /\ call.op = "HasRules" /\ ~c.nil /\ call.ret = TRUE
    /\ Len(allowCIDRs) > 0 /\ ~c.hasAllow
    /\ \A k \in 1..Len(allowCIDRs) : TrimSpace(allowCIDRs[k]) # <<>>

\* C9: deny-only mode: with the deny set configured and the allow set not,
\* a parsable address in no deny range is allowed and an address in a deny
\* range is rejected.
C9_DenyOnly ==
    (Asked /\ c.hasDeny /\ ~c.hasAllow) =>
        /\ (Parses /\ ~InDeny) => call.ret = TRUE
        /\ (Parses /\ InDeny) => call.ret = FALSE

C9_Witness ==
    Asked /\ c.hasDeny /\ ~c.hasAllow /\ Parses /\ ~InDeny /\ call.ret = TRUE

\* C10: no call changes the checker (allowNets, denyNets, hasAllow, hasDeny),
\* and IsAllowed returns for an address what it returned for it the first
\* time, whatever calls were made since.
C10_Immutable ==
    [][/\ c' = c
       /\ (call'.op = "IsAllowed" /\ first'.op = "IsAllowed" /\ first'.arg = call'.arg)
             => call'.ret = first'.ret]_vars

C10_Witness ==
    /\ Asked /\ first.op = "IsAllowed" /\ first.arg = call.arg
    /\ first.after >= 2
    /\ c.hasAllow /\ c.hasDeny /\ call.ret = FALSE

====
